---- MODULE Spec2Model ----
(***************************************************************************)
(* A model of moneda: ECDSA over secp256k1 (src/crypto) and the generic    *)
(* prime-field / curve-point arithmetic (src/arithmetic).                  *)
(*                                                                         *)
(* The 256-bit machine of the crate is scaled down: a U256 is a word of    *)
(* U256Mod values, the curve is y^2 = x^3 + b over the field of FieldPrime *)
(* elements, whose group has the prime order Order < FieldPrime < U256Mod, *)
(* as on secp256k1.  HMAC-SHA256 is a deterministic keyed function on      *)
(* words, one of a small family indexed by hmacSeed.                       *)
(***************************************************************************)
EXTENDS Integers, Sequences, FiniteSets, TLC

(***************************************************************************)
(* Curve parameters (curves/secp256k1.rs) and the word size.               *)
(***************************************************************************)
U256Mod == 32

FieldPrime == 19

Order == 13

CurveB == 3

GenX == 1

GenY == 2

\* Number of members of the HMAC family, less one.
MaxSeed == 1

\* Largest field modulus of the generic arithmetic layer that is explored.
MaxPrime == 5

\* Largest magnitude of an integer operand of the field operations.
MaxInt == 3

\* Largest scalar m, n of a scalar multiplication.
MaxScalar == 6

U256 == 0 .. (U256Mod - 1)

(***************************************************************************)
(* Integer helpers.                                                        *)
(***************************************************************************)
\* modpow as num-bigint computes it for an exponent >= 0: an empty product
\* is 1, and the result lies in [0, m) for a negative base too (it rounds
\* like mod_floor).
RECURSIVE ModPow(_, _, _)
ModPow(base, e, m) ==
    IF e = 0 THEN 1 % m
    ELSE LET half == ModPow(base, e \div 2, m)
         IN  IF e % 2 = 0 THEN (half * half) % m
             ELSE (half * half * base) % m

\* Rust's % on integers: the remainder takes the sign of the dividend.
RustRem(a, m) ==
    IF a >= 0 THEN a % m ELSE 0 - ((0 - a) % m)

\* subtle::CtOption<T>
Some(v) == [some |-> TRUE, v |-> v]

NoneOpt == [some |-> FALSE, v |-> 0]

(***************************************************************************)
(* k256: scalars modulo Order and points of the curve.                     *)
(***************************************************************************)
\* Scalar::from_repr: Some for every value below the order, zero included.
ScalarFromRepr(bytes) ==
    IF bytes < Order THEN Some(bytes) ELSE NoneOpt

\* The inverses modulo the order, by Fermat's little theorem.
ScalarInverses == [x \in 1 .. (Order - 1) |-> ModPow(x, Order - 2, Order)]

\* Scalar::invert: None for zero.
ScalarInvert(x) ==
    IF x = 0 THEN NoneOpt ELSE Some(ScalarInverses[x])

Identity == [inf |-> TRUE, x |-> 0, y |-> 0]

Generator == [inf |-> FALSE, x |-> GenX, y |-> GenY]

\* The inverses in the base field.
FieldInverses ==
    [a \in 0 .. (FieldPrime - 1) |-> ModPow(a, FieldPrime - 2, FieldPrime)]

FInv(a) == FieldInverses[a % FieldPrime]

\* ProjectivePoint + ProjectivePoint: the group law of the curve.
ProjAdd(A, B) ==
    IF A.inf THEN B
    ELSE IF B.inf THEN A
    ELSE IF A.x = B.x /\ (A.y + B.y) % FieldPrime = 0 THEN Identity
    ELSE LET m == IF A.x = B.x
                  THEN (3 * A.x * A.x * FInv(2 * A.y)) % FieldPrime
                  ELSE ((B.y - A.y) * FInv(B.x - A.x)) % FieldPrime
             x3 == (m * m - A.x - B.x) % FieldPrime
             y3 == (m * (A.x - x3) - A.y) % FieldPrime
         IN  [inf |-> FALSE, x |-> x3, y |-> y3]

\* ProjectivePoint * Scalar
RECURSIVE ProjMul(_, _)
ProjMul(A, k) ==
    IF k = 0 THEN Identity
    ELSE LET half == ProjMul(A, k \div 2)
             dbl  == ProjAdd(half, half)
         IN  IF k % 2 = 1 THEN ProjAdd(dbl, A) ELSE dbl

\* ProjectivePoint::GENERATOR * k for every scalar k.
GeneratorMul == [k \in 0 .. (Order - 1) |-> ProjMul(Generator, k)]

\* to_affine().x(): the affine form of the identity has the coordinates (0, 0).
AffineX(pt) == IF pt.inf THEN 0 ELSE pt.x

\* Every ProjectivePoint a caller can hold: the group is cyclic of prime order.
CurvePoints == { ProjMul(Generator, i) : i \in 0 .. (Order - 1) }

VARIABLES
    build,      \* "debug" or "release": whether debug_assert! is compiled in
    hmacSeed,   \* which member of the HMAC family HMAC-SHA256 is
    key,        \* the result of the last PrivateKey constructor
    pc,         \* "start": no key yet; "idle": between calls; "nonce": inside
                \* the candidate loop of a sign call; "done": verified
    nK, nV,     \* locals k and v of generate_deterministic_nonce
    callHash,   \* message_hash of the sign call in progress
    sigRes,     \* the result of the last sign call with this key
    prevNonce,  \* the nonce of the sign call before it, when that call had
                \* the inputs of the call in progress or last returned
    verRes,     \* the last verification of sigRes's signature
    vcall,      \* the last call of verify on arbitrary inputs
    fcall,      \* the last call of Point::finite
    felems,     \* two live FieldElements, the operands of the field operations
    fop,        \* the last operation of arithmetic/field.rs and its result
    pcall       \* the last operation on Points and its result

vars == <<build, hmacSeed, key, pc, nK, nV, callHash, sigRes, prevNonce,
          verRes, vcall, fcall, felems, fop, pcall>>

arithVars == <<felems, fop, pcall>>

ecdsaVars == <<build, hmacSeed, key, pc, nK, nV, callHash, sigRes, prevNonce,
               verRes>>

(***************************************************************************)
(* crypto/rfc6979.rs                                                       *)
(***************************************************************************)
RECURSIVE HmacFold(_, _)
HmacFold(acc, msg) ==
    IF msg = <<>> THEN acc
    ELSE HmacFold((5 * acc + 3 * Head(msg) + 7) % U256Mod, Tail(msg))

\* HmacSha256::new_from_slice(key), update(..) for each part of msg, finalize()
HmacSha256(k, msg) == HmacFold((k + hmacSeed) % U256Mod, msg)

\* A variant that starts from the v and k left by the previous call.
NonceSetupStale(private_key, message_hash) ==
    LET k1 == HmacSha256(nK, <<nV, 0, private_key, message_hash>>)
        v1 == HmacSha256(k1, <<nV>>)
        k2 == HmacSha256(k1, <<v1, 1, private_key, message_hash>>)
        v2 == HmacSha256(k2, <<v1>>)
    IN  [k |-> k2, v |-> v2]

\* generate_deterministic_nonce up to the loop: v = 0x01.., k = 0x00.., then
\* K = HMAC_K(V || 0x00 || x || h), V = HMAC_K(V),
\* K = HMAC_K(V || 0x01 || x || h), V = HMAC_K(V).
NonceSetup(private_key, message_hash) ==
    LET v0 == 1
        k0 == 0
        k1 == HmacSha256(k0, <<v0, 0, private_key, message_hash>>)
        v1 == HmacSha256(k1, <<v0>>)
        k2 == HmacSha256(k1, <<v1, 1, private_key, message_hash>>)
        v2 == HmacSha256(k2, <<v1>>)
    IN  [k |-> k2, v |-> v2]

\* The loop's test of a candidate.
CandidateOk(candidate) == candidate > 0 /\ candidate < Order

\* The loop's update after a rejected candidate v:
\* K = HMAC_K(V || 0x00), V = HMAC_K(V).
NonceRetry(k, v) ==
    LET k1 == HmacSha256(k, <<v, 0>>)
    IN  [k |-> k1, v |-> HmacSha256(k1, <<v>>)]

(***************************************************************************)
(* crypto/keys.rs                                                          *)
(***************************************************************************)
NoKey == [op |-> "none", kind |-> "none", bytes |-> 0, scalar |-> 0]

\* The key variable: which constructor ran, on which bytes, and its result.
KeyRec(op, res) ==
    [op |-> op, kind |-> res.kind, bytes |-> res.bytes, scalar |-> res.scalar]

\* PrivateKey::from_bytes
from_bytes(bytes) ==
    LET sc == ScalarFromRepr(bytes)
    IN  IF sc.some
        THEN [kind |-> "ok", bytes |-> bytes, scalar |-> sc.v]
        ELSE [kind |-> "InvalidPrivateKey", bytes |-> bytes, scalar |-> 0]

\* PrivateKey::public_key
public_key(scalar) == ProjMul(Generator, scalar)

(***************************************************************************)
(* crypto/ecdsa.rs                                                         *)
(***************************************************************************)
NoSig == [kind |-> "none", d |-> 0, h |-> 0, k |-> 0, r |-> 0, s |-> 0,
          rc |-> 0, sc |-> 0]

SigPanic(d, h, k, rc, sc) ==
    [kind |-> "panic", d |-> d, h |-> h, k |-> k, r |-> 0, s |-> 0,
     rc |-> rc, sc |-> sc]

\* Low-s with the comparison s_raw >= half_order.
LowSInclusive(s_raw) ==
    IF s_raw >= Order \div 2
    THEN (Order - s_raw + U256Mod) % U256Mod
    ELSE s_raw

\* Low-s normalization: half_order = order >> 1; order.wrapping_sub(&s_raw)
LowS(s_raw) ==
    IF s_raw > Order \div 2
    THEN (Order - s_raw + U256Mod) % U256Mod
    ELSE s_raw

\* PrivateKey::sign from the nonce k on.  rc and sc record the computed r
\* and s_raw; kind is "ok" for Ok(Signature) and "panic" for a panic.
SignBody(d, h, k) ==
    LET r_point  == GeneratorMul[k]
        r        == AffineX(r_point) % Order
        h_scalar == ScalarFromRepr(h)
        k_inv    == ScalarInvert(k)
    IN  IF ~h_scalar.some THEN SigPanic(d, h, k, r, 0)
        ELSE IF ~k_inv.some THEN SigPanic(d, h, k, r, 0)
        ELSE LET s_raw == (k_inv.v * ((h_scalar.v + r * d) % Order)) % Order
                 s     == LowS(s_raw)
             IN  IF build = "debug" /\ (r = 0 \/ s = 0)
                 THEN SigPanic(d, h, k, r, s_raw)
                 ELSE [kind |-> "ok", d |-> d, h |-> h, k |-> k, r |-> r,
                       s |-> s, rc |-> r, sc |-> s_raw]

Ret(b) == [kind |-> "ret", val |-> b]

\* A range check that forgets the zero cases.
SigInRangeNoZero(r, s) == r < Order /\ s < Order

\* A range check that also demands s in the lower half of the order.
SigInRangeLowS(r, s) ==
    /\ ~(r = 0 \/ r >= Order)
    /\ ~(s = 0 \/ s > Order \div 2)

\* verify: r, s in [1, n-1]
SigInRange(r, s) ==
    /\ ~(r = 0 \/ r >= Order)
    /\ ~(s = 0 \/ s >= Order)

\* The x-coordinate compared without the reduction modulo the order.
ResultRNoReduce(pt) == AffineX(pt)

\* verify: result_r = result_point.x mod n
ResultR(pt) == AffineX(pt) % Order

\* u1 that leaves the digest out.
U1NoHash(h, w) == w

\* verify: u1 = h * w
U1(h, w) == (h * w) % Order

\* verify(public_key, message_hash, signature)
verify(Q, h, r, s) ==
    IF ~SigInRange(r, s) THEN Ret(FALSE)
    ELSE LET s_scalar == ScalarFromRepr(s)
             r_scalar == ScalarFromRepr(r)
             h_scalar == ScalarFromRepr(h)
         IN  IF ~s_scalar.some THEN Ret(FALSE)
             ELSE IF ~r_scalar.some THEN Ret(FALSE)
             ELSE IF ~h_scalar.some THEN Ret(FALSE)
             ELSE LET w == ScalarInvert(s_scalar.v)
                  IN  IF ~w.some THEN Ret(FALSE)
                      ELSE LET u1 == U1(h_scalar.v, w.v)
                               u2 == (r_scalar.v * w.v) % Order
                               result_point ==
                                   ProjAdd(ProjMul(Generator, u1),
                                           ProjMul(Q, u2))
                           IN  Ret(ResultR(result_point) = r)

NoVer == [kind |-> "none", h |-> 0, val |-> FALSE]

NoNonce == [set |-> FALSE, d |-> 0, h |-> 0, k |-> 0]

NoVCall == [kind |-> "none", q |-> Identity, h |-> 0, r |-> 0, s |-> 0,
            val |-> FALSE]

NoFE == [num |-> 0, prime |-> 0]

(***************************************************************************)
(* arithmetic/field.rs                                                     *)
(***************************************************************************)
FE(num, prime) == [num |-> num, prime |-> prime]

FOk(fe) == [ok |-> TRUE, err |-> "none", val |-> fe]

FErr(e) == [ok |-> FALSE, err |-> e, val |-> NoFE]

\* FieldElement::from with a single reduction.
FieldElementFromOnce(num, prime) ==
    IF prime <= 1 THEN FErr("InvalidPrime")
    ELSE FOk(FE(RustRem(num, prime), prime))

\* FieldElement::from
FieldElementFrom(num, prime) ==
    IF prime <= 1 THEN FErr("InvalidPrime")
    ELSE FOk(FE(RustRem(RustRem(num, prime) + prime, prime), prime))

\* FieldElement::pow: n = exp % (prime - 1); num.modpow(n, prime).
\* BigInt::modpow panics on a negative exponent.
pow(self, exp) ==
    LET n == RustRem(exp, self.prime - 1)
    IN  IF n < 0 THEN [panic |-> TRUE, val |-> NoFE]
        ELSE [panic |-> FALSE,
              val |-> FE(ModPow(self.num, n, self.prime), self.prime)]

\* impl Add for FieldElement
FieldAdd(self, rhs) ==
    IF self.prime # rhs.prime THEN FErr("DifferentFields")
    ELSE FOk(FE(RustRem(self.num + rhs.num, self.prime), self.prime))

\* impl Mul for FieldElement
FieldMul(self, rhs) ==
    IF self.prime # rhs.prime THEN FErr("DifferentFields")
    ELSE FOk(FE(RustRem(self.num * rhs.num, self.prime), self.prime))

\* impl Sub for FieldElement
FieldSub(self, rhs) ==
    IF self.prime # rhs.prime THEN FErr("DifferentFields")
    ELSE LET res == self.num - rhs.num
         IN  FOk(FE(RustRem(RustRem(res, self.prime) + self.prime,
                            self.prime), self.prime))

\* impl Mul<BigInt> for FieldElement
FieldMulInt(self, rhs) ==
    FOk(FE(RustRem(self.num * rhs, self.prime), self.prime))

\* impl Mul<FieldElement> for BigInt
IntMulField(self, rhs) ==
    FOk(FE(RustRem(self * rhs.num, rhs.prime), rhs.prime))

\* A division that refuses a zero divisor.
FieldDivChecked(self, rhs) ==
    IF self.prime # rhs.prime THEN FErr("DifferentFields")
    ELSE IF rhs.num = 0 THEN FErr("DivisionByZero")
    ELSE FOk(FE(RustRem(self.num * ModPow(rhs.num, self.prime - 2,
                                          self.prime), self.prime),
                self.prime))

\* impl Div for FieldElement
FieldDiv(self, rhs) ==
    IF self.prime # rhs.prime THEN FErr("DifferentFields")
    ELSE LET exp     == self.prime - 2
             rhs_inv == ModPow(rhs.num, exp, self.prime)
         IN  FOk(FE(RustRem(self.num * rhs_inv, self.prime), self.prime))

\* impl PartialEq for FieldElement
FieldEq(self, other) == self.num = other.num /\ self.prime = other.prime

\* A field operation that panicked.
FPanic == [ok |-> FALSE, err |-> "panic", val |-> NoFE]

\* The outcome of pow as a result of the shape the operators return.
PowResult(self, exp) ==
    LET r == pow(self, exp) IN IF r.panic THEN FPanic ELSE FOk(r.val)

NoElems == [i \in 1 .. 2 |-> NoFE]

NoFOp == [op |-> "none", a |-> NoFE, b |-> NoFE, k |-> 0, prime |-> 0,
          res |-> FErr("none")]

(***************************************************************************)
(* arithmetic/point.rs                                                     *)
(***************************************************************************)
NoPoint == [inf |-> TRUE, x |-> NoFE, y |-> NoFE, a |-> NoFE, b |-> NoFE]

POk(pt) == [kind |-> "ok", err |-> "none", point |-> pt]

PErr(e) == [kind |-> "err", err |-> e, point |-> NoPoint]

PPanic == [kind |-> "panic", err |-> "none", point |-> NoPoint]

\* Point::finite
finite(x, y, a, b) ==
    LET lhs     == pow(y, 2)
        x_cubed == pow(x, 3)
        ax      == FieldMul(a, x)
    IN  IF lhs.panic \/ x_cubed.panic THEN PPanic
        ELSE IF ~ax.ok THEN PErr(ax.err)
        ELSE LET sum == FieldAdd(x_cubed.val, ax.val)
             IN  IF ~sum.ok THEN PErr(sum.err)
                 ELSE LET rhs == FieldAdd(sum.val, b)
                      IN  IF ~rhs.ok THEN PErr(rhs.err)
                          ELSE IF ~FieldEq(lhs.val, rhs.val)
                          THEN PErr("NotOnCurve")
                          ELSE POk([inf |-> FALSE, x |-> x, y |-> y,
                                    a |-> a, b |-> b])

NoFCall == [kind |-> "none", x |-> NoFE, y |-> NoFE, a |-> NoFE, b |-> NoFE,
            res |-> PErr("none")]

\* Point::infinity
infinity(a, b) == [inf |-> TRUE, x |-> NoFE, y |-> NoFE, a |-> a, b |-> b]

\* Point::add_identity: the operand that is not the matched Infinity;
\* unreachable!() with two finite points.
add_identity(self, other) ==
    IF self.inf THEN POk(other)
    ELSE IF other.inf THEN POk(self)
    ELSE PPanic

\* Point::add_inverse_points
add_inverse_points(self, other) == infinity(self.a, self.b)

\* Point::point_doubling
point_doubling(self) ==
    IF self.inf THEN POk(infinity(self.a, self.b))
    ELSE
    LET x == self.x
        y == self.y
        a == self.a
        b == self.b
        zero            == FieldElementFrom(0, y.prime)
        x_squared       == pow(x, 2)
        three_x_squared == IntMulField(3, x_squared.val)
        numerator       == FieldAdd(three_x_squared.val, a)
        denominator     == IntMulField(2, y)
        m               == FieldDiv(numerator.val, denominator.val)
        m_squared       == pow(m.val, 2)
        two_x           == IntMulField(2, x)
        x3              == FieldSub(m_squared.val, two_x.val)
        x_minus_x3      == FieldSub(x, x3.val)
        m_times_diff    == FieldMul(m.val, x_minus_x3.val)
        y3              == FieldSub(m_times_diff.val, y)
    IN  IF ~zero.ok THEN PPanic
        ELSE IF FieldEq(y, zero.val) THEN POk(infinity(a, b))
        ELSE IF x_squared.panic THEN PPanic
        ELSE IF ~three_x_squared.ok THEN PErr(three_x_squared.err)
        ELSE IF ~numerator.ok THEN PErr(numerator.err)
        ELSE IF ~denominator.ok THEN PErr(denominator.err)
        ELSE IF ~m.ok THEN PErr(m.err)
        ELSE IF m_squared.panic THEN PPanic
        ELSE IF ~two_x.ok THEN PErr(two_x.err)
        ELSE IF ~x3.ok THEN PErr(x3.err)
        ELSE IF ~x_minus_x3.ok THEN PErr(x_minus_x3.err)
        ELSE IF ~m_times_diff.ok THEN PErr(m_times_diff.err)
        ELSE IF ~y3.ok THEN PErr(y3.err)
        ELSE POk([inf |-> FALSE, x |-> x3.val, y |-> y3.val,
                  a |-> a, b |-> b])

\* Point::add_different_points: the curve of the result is that of self;
\* unreachable!() with an Infinity.
add_different_points(self, other) ==
    IF self.inf \/ other.inf THEN PPanic
    ELSE
    LET x1 == self.x
        y1 == self.y
        x2 == other.x
        y2 == other.y
        y_diff       == FieldSub(y2, y1)
        x_diff       == FieldSub(x2, x1)
        m            == FieldDiv(y_diff.val, x_diff.val)
        m_squared    == pow(m.val, 2)
        x3a          == FieldSub(m_squared.val, x1)
        x3           == FieldSub(x3a.val, x2)
        x1_minus_x3  == FieldSub(x1, x3.val)
        m_times_diff == FieldMul(m.val, x1_minus_x3.val)
        y3           == FieldSub(m_times_diff.val, y1)
    IN  IF ~y_diff.ok THEN PErr(y_diff.err)
        ELSE IF ~x_diff.ok THEN PErr(x_diff.err)
        ELSE IF ~m.ok THEN PErr(m.err)
        ELSE IF m_squared.panic THEN PPanic
        ELSE IF ~x3a.ok THEN PErr(x3a.err)
        ELSE IF ~x3.ok THEN PErr(x3.err)
        ELSE IF ~x1_minus_x3.ok THEN PErr(x1_minus_x3.err)
        ELSE IF ~m_times_diff.ok THEN PErr(m_times_diff.err)
        ELSE IF ~y3.ok THEN PErr(y3.err)
        ELSE POk([inf |-> FALSE, x |-> x3.val, y |-> y3.val,
                  a |-> self.a, b |-> self.b])

\* Point::is_inverse_of
is_inverse_of(self, other) ==
    IF ~self.inf /\ ~other.inf
    THEN /\ FieldEq(self.a, other.a) /\ FieldEq(self.b, other.b)
         /\ FieldEq(self.x, other.x) /\ ~FieldEq(self.y, other.y)
    ELSE FALSE

\* Point::is_same_point
is_same_point(self, other) ==
    IF ~self.inf /\ ~other.inf
    THEN /\ FieldEq(self.a, other.a) /\ FieldEq(self.b, other.b)
         /\ FieldEq(self.x, other.x) /\ FieldEq(self.y, other.y)
    ELSE IF self.inf /\ other.inf
    THEN FieldEq(self.a, other.a) /\ FieldEq(self.b, other.b)
    ELSE FALSE

\* Both points carry the same curve coefficients.
SameCurve(P, Q) == FieldEq(P.a, Q.a) /\ FieldEq(P.b, Q.b)

\* impl PartialEq for Point, with every pair of Infinity points equal.
PointEqAnyInfinity(self, other) ==
    IF ~self.inf /\ ~other.inf
    THEN /\ FieldEq(self.x, other.x) /\ FieldEq(self.y, other.y)
         /\ FieldEq(self.a, other.a) /\ FieldEq(self.b, other.b)
    ELSE self.inf /\ other.inf

\* impl PartialEq for Point
PointEq(self, other) ==
    IF ~self.inf /\ ~other.inf
    THEN /\ FieldEq(self.x, other.x) /\ FieldEq(self.y, other.y)
         /\ FieldEq(self.a, other.a) /\ FieldEq(self.b, other.b)
    ELSE IF self.inf /\ other.inf
    THEN FieldEq(self.a, other.a) /\ FieldEq(self.b, other.b)
    ELSE FALSE

\* The arm of the match in add that a pair of operands takes.
AddArm(self, other) ==
    IF self.inf THEN "identity_left"
    ELSE IF other.inf THEN "identity_right"
    ELSE IF is_inverse_of(self, other) THEN "inverse"
    ELSE IF is_same_point(self, other) THEN "doubling"
    ELSE "different"

\* impl Add for Point, with the identity arms returning the Infinity operand.
PointAddKeepInfinity(self, other) ==
    LET arm == AddArm(self, other)
    IN  IF arm = "identity_left" THEN POk(self)
        ELSE IF arm = "identity_right" THEN POk(other)
        ELSE IF arm = "inverse" THEN POk(add_inverse_points(self, other))
        ELSE IF arm = "doubling" THEN point_doubling(self)
        ELSE add_different_points(self, other)

\* impl Add for Point
PointAdd(self, other) ==
    LET arm == AddArm(self, other)
    IN  IF arm = "identity_left" THEN add_identity(self, other)
        ELSE IF arm = "identity_right" THEN add_identity(other, self)
        ELSE IF arm = "inverse" THEN POk(add_inverse_points(self, other))
        ELSE IF arm = "doubling" THEN point_doubling(self)
        ELSE add_different_points(self, other)

\* The while loop of impl Mul<Point> for BigInt.
RECURSIVE MulLoop(_, _, _)
MulLoop(coef, current, res) ==
    IF ~(coef > 0) THEN POk(res)
    ELSE LET r1 == IF coef % 2 = 1 THEN PointAdd(res, current) ELSE POk(res)
             c2 == PointAdd(current, current)
         IN  IF r1.kind # "ok" THEN r1
             ELSE IF c2.kind # "ok" THEN c2
             ELSE MulLoop(coef \div 2, c2.point, r1.point)

\* impl Mul<Point> for BigInt
PointMul(self, rhs) == MulLoop(self, rhs, infinity(rhs.a, rhs.b))

NoPCall == [kind |-> "none", p |-> NoPoint, q |-> NoPoint, m |-> 0, n |-> 0,
            res |-> PErr("none"), resM |-> PErr("none"),
            resN |-> PErr("none"), resMN |-> PErr("none"), eq |-> FALSE]

(***************************************************************************)
(* Key, sign, verify: the flow of crypto/example.rs.                       *)
(***************************************************************************)
Init ==
    /\ build \in {"debug", "release"}
    /\ hmacSeed \in 0 .. MaxSeed
    /\ key = NoKey
    /\ pc = "start"
    /\ nK = 0
    /\ nV = 0
    /\ callHash = 0
    /\ sigRes = NoSig
    /\ prevNonce = NoNonce
    /\ verRes = NoVer
    /\ vcall = NoVCall
    /\ fcall = NoFCall
    /\ felems = NoElems
    /\ fop = NoFOp
    /\ pcall = NoPCall

\* PrivateKey::from_bytes(bytes): the key of this run.
FromBytes ==
    /\ pc = "start"
    /\ \E bytes \in U256 : key' = KeyRec("from_bytes", from_bytes(bytes))
    /\ pc' = "idle"
    /\ UNCHANGED <<build, hmacSeed, nK, nV, callHash, sigRes, prevNonce,
                   verRes, vcall, fcall, arithVars>>

\* PrivateKey::generate: Scalar::random draws bytes until from_repr takes them.
Generate ==
    /\ pc = "start"
    /\ \E bytes \in U256 :
          /\ ScalarFromRepr(bytes).some
          /\ key' = KeyRec("generate", from_bytes(bytes))
    /\ pc' = "idle"
    /\ UNCHANGED <<build, hmacSeed, nK, nV, callHash, sigRes, prevNonce,
                   verRes, vcall, fcall, arithVars>>

\* sign(message_hash) up to the candidate loop of the nonce generation.
SignStart ==
    /\ pc = "idle"
    /\ key.kind = "ok"
    /\ \E h \in U256 :
          LET st == NonceSetup(key.scalar, h)
          IN  /\ callHash' = h
              /\ nK' = st.k
              /\ nV' = st.v
              /\ prevNonce' =
                    IF sigRes.kind # "none" /\ sigRes.d = key.scalar
                                           /\ sigRes.h = h
                    THEN [set |-> TRUE, d |-> sigRes.d, h |-> sigRes.h,
                          k |-> sigRes.k]
                    ELSE NoNonce
    /\ pc' = "nonce"
    /\ sigRes' = NoSig
    /\ UNCHANGED <<build, hmacSeed, key, verRes, vcall, fcall, arithVars>>

\* One iteration of the loop that rejects its candidate.
NonceReject ==
    /\ pc = "nonce"
    /\ LET v1 == HmacSha256(nK, <<nV>>)
           st == NonceRetry(nK, v1)
       IN  /\ ~CandidateOk(v1)
           /\ nK' = st.k
           /\ nV' = st.v
    /\ UNCHANGED <<build, hmacSeed, key, pc, callHash, sigRes, prevNonce,
                   verRes, vcall, fcall, arithVars>>

\* The iteration that accepts its candidate, and the rest of sign.
NonceAccept ==
    /\ pc = "nonce"
    /\ LET v1 == HmacSha256(nK, <<nV>>)
       IN  /\ CandidateOk(v1)
           /\ nV' = v1
           /\ sigRes' = SignBody(key.scalar, callHash, ScalarFromRepr(v1).v)
    /\ pc' = "idle"
    /\ UNCHANGED <<build, hmacSeed, key, nK, callHash, prevNonce, verRes,
                   vcall, fcall, arithVars>>

\* verify(public_key, h2, signature) on the signature sign returned; the
\* run ends with it.
VerifySigned ==
    /\ pc = "idle"
    /\ sigRes.kind = "ok"
    /\ \E h2 \in U256 :
          LET res == verify(public_key(key.scalar), h2, sigRes.r, sigRes.s)
          IN  verRes' = [kind |-> res.kind, h |-> h2, val |-> res.val]
    /\ pc' = "done"
    /\ UNCHANGED <<build, hmacSeed, key, nK, nV, callHash, sigRes,
                   prevNonce, vcall, fcall, arithVars>>

Next ==
    \/ FromBytes
    \/ Generate
    \/ SignStart
    \/ NonceReject
    \/ NonceAccept
    \/ VerifySigned

Spec == Init /\ [][Next]_vars

\* A sign call that is inside the candidate loop keeps executing it.
SpecLive == Spec /\ WF_vars(NonceReject) /\ WF_vars(NonceAccept)

(***************************************************************************)
(* verify as a function of arbitrary inputs.                               *)
(***************************************************************************)
InitVerify ==
    /\ build = "release"
    /\ hmacSeed = 0
    /\ key = NoKey
    /\ pc = "idle"
    /\ nK = 0
    /\ nV = 0
    /\ callHash = 0
    /\ sigRes = NoSig
    /\ prevNonce = NoNonce
    /\ verRes = NoVer
    /\ vcall \in { [kind |-> "call", q |-> Q, h |-> h, r |-> 0, s |-> 0,
                    val |-> FALSE] : Q \in CurvePoints, h \in U256 }
    /\ fcall = NoFCall
    /\ felems = NoElems
    /\ fop = NoFOp
    /\ pcall = NoPCall

\* verify(&vcall.q, &vcall.h, &Signature { r, s }) for any signature.
VerifyCall ==
    /\ vcall.kind = "call"
    /\ \E r \in U256, s \in U256 :
          LET res == verify(vcall.q, vcall.h, r, s)
          IN  vcall' = [vcall EXCEPT !.kind = res.kind, !.val = res.val,
                                     !.r = r, !.s = s]
    /\ UNCHANGED <<ecdsaVars, fcall, arithVars>>

NextVerify == VerifyCall

SpecVerify == InitVerify /\ [][NextVerify]_vars

(***************************************************************************)
(* The arithmetic layer as functions of arbitrary field elements.          *)
(***************************************************************************)
IsPrime(n) == n > 1 /\ \A i \in 2 .. (n - 1) : n % i # 0

Primes == { n \in 2 .. MaxPrime : IsPrime(n) }

\* The elements FieldElement::from returns for the moduli in Primes.
Elements ==
    { FieldElementFrom(n, pr).val : n \in 0 .. (MaxPrime - 1), pr \in Primes }

InitCurve ==
    /\ build = "release"
    /\ hmacSeed = 0
    /\ key = NoKey
    /\ pc = "idle"
    /\ nK = 0
    /\ nV = 0
    /\ callHash = 0
    /\ sigRes = NoSig
    /\ prevNonce = NoNonce
    /\ verRes = NoVer
    /\ vcall = NoVCall
    /\ fcall \in { [kind |-> "call", x |-> x, y |-> y, a |-> a, b |-> b,
                    res |-> PErr("none")] :
                   x \in Elements, y \in Elements, a \in Elements,
                   b \in Elements }
    /\ felems = NoElems
    /\ fop = NoFOp
    /\ pcall = NoPCall

\* Point::finite(fcall.x, fcall.y, fcall.a, fcall.b)
FiniteCall ==
    /\ fcall.kind = "call"
    /\ fcall' = [fcall EXCEPT !.kind = "ret",
                              !.res = finite(fcall.x, fcall.y, fcall.a,
                                             fcall.b)]
    /\ UNCHANGED <<ecdsaVars, vcall, arithVars>>

NextCurve == FiniteCall

SpecCurve == InitCurve /\ [][NextCurve]_vars

(***************************************************************************)
(* arithmetic/field.rs as a machine: two live elements, every public       *)
(* operation applied to them, a result that is Ok replacing one of them.   *)
(***************************************************************************)
Ints == (0 - MaxInt) .. MaxInt

\* The moduli passed to FieldElement::from: the primes, and -1, 0 and 1.
Moduli == (-1 .. 1) \cup Primes

InitField ==
    /\ build = "release"
    /\ hmacSeed = 0
    /\ key = NoKey
    /\ pc = "idle"
    /\ nK = 0
    /\ nV = 0
    /\ callHash = 0
    /\ sigRes = NoSig
    /\ prevNonce = NoNonce
    /\ verRes = NoVer
    /\ vcall = NoVCall
    /\ fcall = NoFCall
    /\ felems = [i \in 1 .. 2 |-> FieldElementFrom(0, 2).val]
    /\ fop = NoFOp
    /\ pcall = NoPCall

\* The caller keeps an Ok result in place of one of its two elements.
Keep(i, res) ==
    /\ felems' = IF res.ok THEN [felems EXCEPT ![i] = res.val] ELSE felems
    /\ UNCHANGED <<ecdsaVars, vcall, fcall, pcall>>

\* FieldElement::from(n, p)
FromOp ==
    \E i \in 1 .. 2, n \in Ints, p \in Moduli :
        LET res == FieldElementFrom(n, p)
        IN  /\ fop' = [NoFOp EXCEPT !.op = "from", !.k = n, !.prime = p,
                                    !.res = res]
            /\ Keep(i, res)

\* felems[1] + felems[2]
AddOp ==
    \E i \in 1 .. 2 :
        LET res == FieldAdd(felems[1], felems[2])
        IN  /\ fop' = [NoFOp EXCEPT !.op = "add", !.a = felems[1],
                                    !.b = felems[2], !.res = res]
            /\ Keep(i, res)

\* felems[1] - felems[2]
SubOp ==
    \E i \in 1 .. 2 :
        LET res == FieldSub(felems[1], felems[2])
        IN  /\ fop' = [NoFOp EXCEPT !.op = "sub", !.a = felems[1],
                                    !.b = felems[2], !.res = res]
            /\ Keep(i, res)

\* felems[1] * felems[2]
MulOp ==
    \E i \in 1 .. 2 :
        LET res == FieldMul(felems[1], felems[2])
        IN  /\ fop' = [NoFOp EXCEPT !.op = "mul", !.a = felems[1],
                                    !.b = felems[2], !.res = res]
            /\ Keep(i, res)

\* felems[1] / felems[2]
DivOp ==
    \E i \in 1 .. 2 :
        LET res == FieldDiv(felems[1], felems[2])
        IN  /\ fop' = [NoFOp EXCEPT !.op = "div", !.a = felems[1],
                                    !.b = felems[2], !.res = res]
            /\ Keep(i, res)

\* felems[1] * k
MulIntOp ==
    \E i \in 1 .. 2, k \in Ints :
        LET res == FieldMulInt(felems[1], k)
        IN  /\ fop' = [NoFOp EXCEPT !.op = "mul_int", !.a = felems[1],
                                    !.k = k, !.res = res]
            /\ Keep(i, res)

\* k * felems[1]
IntMulOp ==
    \E i \in 1 .. 2, k \in Ints :
        LET res == IntMulField(k, felems[1])
        IN  /\ fop' = [NoFOp EXCEPT !.op = "int_mul", !.a = felems[1],
                                    !.k = k, !.res = res]
            /\ Keep(i, res)

\* felems[1].pow(e)
PowOp ==
    \E i \in 1 .. 2, e \in Ints :
        LET res == PowResult(felems[1], e)
        IN  /\ fop' = [NoFOp EXCEPT !.op = "pow", !.a = felems[1],
                                    !.k = e, !.res = res]
            /\ Keep(i, res)

NextField ==
    \/ FromOp
    \/ AddOp
    \/ SubOp
    \/ MulOp
    \/ DivOp
    \/ MulIntOp
    \/ IntMulOp
    \/ PowOp

SpecField == InitField /\ [][NextField]_vars

(***************************************************************************)
(* arithmetic/point.rs: addition, comparison and scalar multiplication of  *)
(* the points the constructors return.                                     *)
(***************************************************************************)
\* The points Point::finite and Point::infinity return for Elements.
Points ==
    { finite(x, y, a, b).point :
        <<x, y, a, b>> \in { c \in Elements \X Elements \X Elements \X Elements :
                                finite(c[1], c[2], c[3], c[4]).kind = "ok" } }
    \cup { infinity(a, b) :
             <<a, b>> \in { c \in Elements \X Elements :
                              c[1].prime = c[2].prime } }

Scalars == 0 .. MaxScalar

InitPoint ==
    /\ build = "release"
    /\ hmacSeed = 0
    /\ key = NoKey
    /\ pc = "idle"
    /\ nK = 0
    /\ nV = 0
    /\ callHash = 0
    /\ sigRes = NoSig
    /\ prevNonce = NoNonce
    /\ verRes = NoVer
    /\ vcall = NoVCall
    /\ fcall = NoFCall
    /\ felems = NoElems
    /\ fop = NoFOp
    /\ pcall \in { [NoPCall EXCEPT !.kind = "call", !.p = P] : P \in Points }

\* pcall.p + Q
AddCall ==
    /\ pcall.kind = "call"
    /\ \E Q \in Points :
          pcall' = [pcall EXCEPT !.kind = "add", !.q = Q,
                                 !.res = PointAdd(pcall.p, Q)]
    /\ UNCHANGED <<ecdsaVars, vcall, fcall, felems, fop>>

\* pcall.p == Q
EqCall ==
    /\ pcall.kind = "call"
    /\ \E Q \in Points :
          pcall' = [pcall EXCEPT !.kind = "eq", !.q = Q,
                                 !.eq = PointEq(pcall.p, Q)]
    /\ UNCHANGED <<ecdsaVars, vcall, fcall, felems, fop>>

\* m * pcall.p, n * pcall.p and (m + n) * pcall.p
MulCall ==
    /\ pcall.kind = "call"
    /\ \E m \in Scalars, n \in Scalars :
          pcall' = [pcall EXCEPT !.kind = "mul", !.m = m, !.n = n,
                                 !.resM = PointMul(m, pcall.p),
                                 !.resN = PointMul(n, pcall.p),
                                 !.resMN = PointMul(m + n, pcall.p)]
    /\ UNCHANGED <<ecdsaVars, vcall, fcall, felems, fop>>

NextPoint ==
    \/ AddCall
    \/ EqCall
    \/ MulCall

SpecPoint == InitPoint /\ [][NextPoint]_vars

(***************************************************************************)
(* Sequences of additions and scalar multiplications: pcall.p is the point *)
(* the sequence has reached, on the curve of the point it started from.    *)
(***************************************************************************)
InitGroup ==
    /\ build = "release"
    /\ hmacSeed = 0
    /\ key = NoKey
    /\ pc = "idle"
    /\ nK = 0
    /\ nV = 0
    /\ callHash = 0
    /\ sigRes = NoSig
    /\ prevNonce = NoNonce
    /\ verRes = NoVer
    /\ vcall = NoVCall
    /\ fcall = NoFCall
    /\ felems = NoElems
    /\ fop = NoFOp
    /\ pcall \in { [NoPCall EXCEPT !.kind = "group", !.p = P] : P \in Points }

\* The caller goes on with the point of an Ok result.
Reached(res) == IF res.kind = "ok" THEN res.point ELSE pcall.p

\* pcall.p + Q, for Q a constructed point of the same curve or pcall.p.
GroupAddRight ==
    /\ pcall.kind \in {"group", "gadd", "gmul"}
    /\ \E Q \in Points \cup {pcall.p} :
          /\ SameCurve(pcall.p, Q)
          /\ LET res == PointAdd(pcall.p, Q)
             IN  pcall' = [pcall EXCEPT !.kind = "gadd", !.q = Q, !.m = 0,
                                        !.res = res, !.p = Reached(res)]
    /\ UNCHANGED <<ecdsaVars, vcall, fcall, felems, fop>>

\* Q + pcall.p
GroupAddLeft ==
    /\ pcall.kind \in {"group", "gadd", "gmul"}
    /\ \E Q \in Points :
          /\ SameCurve(pcall.p, Q)
          /\ LET res == PointAdd(Q, pcall.p)
             IN  pcall' = [pcall EXCEPT !.kind = "gadd", !.q = Q, !.m = 0,
                                        !.res = res, !.p = Reached(res)]
    /\ UNCHANGED <<ecdsaVars, vcall, fcall, felems, fop>>

\* k * pcall.p
GroupMul ==
    /\ pcall.kind \in {"group", "gadd", "gmul"}
    /\ \E k \in Scalars :
          LET res == PointMul(k, pcall.p)
          IN  pcall' = [pcall EXCEPT !.kind = "gmul", !.q = NoPoint, !.m = k,
                                     !.res = res, !.p = Reached(res)]
    /\ UNCHANGED <<ecdsaVars, vcall, fcall, felems, fop>>

NextGroup ==
    \/ GroupAddRight
    \/ GroupAddLeft
    \/ GroupMul

SpecGroup == InitGroup /\ [][NextGroup]_vars

(***************************************************************************)
(* Claims about keys, sign and the verification of sign's signatures.      *)
(***************************************************************************)
Scalars1 == 1 .. (Order - 1)

Reduced == 0 .. (Order - 1)

\* The last sign call has returned or panicked.
Signed == sigRes.kind # "none"

\* The signature of the last sign call has been verified against verRes.h.
Verified == sigRes.kind = "ok" /\ verRes.kind # "none"

\* C1 (as claimed): ECDSA round trip.  For every private key in [1, order-1]
\* and every reduced digest h, sign(h) returns a signature, and verify of
\* that signature against h and the public key is true.
C1_RoundTrip ==
    /\ (Signed /\ sigRes.d \in Scalars1 /\ sigRes.h \in Reduced)
          => sigRes.kind = "ok"
    /\ (Verified /\ sigRes.d \in Scalars1 /\ sigRes.h \in Reduced
                 /\ verRes.h = sigRes.h)
          => (verRes.kind = "ret" /\ verRes.val)

\* C2: low-s canonicality.  Every signature sign returns has s <= order/2,
\* and when the raw s exceeds order/2 the returned s is order - s.
C2_LowS ==
    sigRes.kind = "ok" =>
        /\ sigRes.s <= Order \div 2
        /\ (sigRes.sc > Order \div 2 => sigRes.s = Order - sigRes.sc)

\* C2 witness: sign returned a signature whose raw s was in the upper half.
C2_Witness ==
    /\ sigRes.kind = "ok"
    /\ sigRes.d \in Scalars1
    /\ sigRes.h \in Reduced
    /\ sigRes.sc > Order \div 2

\* C3 (as claimed): every signature sign returns for a key in [1, order-1]
\* and a reduced digest has r and s in [1, order-1]; a computed zero makes
\* sign fail instead.
C3_Components ==
    (sigRes.kind = "ok" /\ sigRes.d \in Scalars1 /\ sigRes.h \in Reduced)
        => (sigRes.r \in Scalars1 /\ sigRes.s \in Scalars1)

\* The digest other than h for which the signature (r, s) of h also verifies:
\* it sends the recomputed point to the negative of the nonce point.
TwinDigest(d, h, r) == (2 * Order * Order - h - 2 * r * d) % Order

\* The point verify recomputes for digest h2 and the last signature.
Recomputed(h2) ==
    LET w == CHOOSE w \in Scalars1 : (sigRes.s * w) % Order = 1
    IN  ProjMul(Generator, ((h2 + sigRes.r * sigRes.d) * w) % Order)

\* C6 (as claimed): tamper sensitivity.  For two distinct reduced digests
\* h1 # h2, the signature sign returns for h1 does not verify against h2.
C6_Tamper ==
    (Verified /\ sigRes.d \in Scalars1 /\ sigRes.h \in Reduced
              /\ verRes.h \in Reduced /\ verRes.h # sigRes.h)
        => (verRes.kind = "ret" /\ ~verRes.val)

\* C6 (amended): for distinct reduced digests h1 # h2, the signature (r, s)
\* sign returns for h1 verifies against h2 only if h2 = -h1 - 2*r*d mod
\* order, or if the point recomputed for h2 is a third point, neither the
\* nonce point nor its negative, whose x-coordinate is congruent to r; and
\* against h2 = -h1 - 2*r*d it does verify whenever r and s are not zero.
C6_TamperAmended ==
    (Verified /\ sigRes.h \in Reduced /\ verRes.h \in Reduced
              /\ verRes.h # sigRes.h)
        => /\ verRes.kind = "ret"
           /\ verRes.val =>
                \/ verRes.h = TwinDigest(sigRes.d, sigRes.h, sigRes.r)
                \/ LET pt == Recomputed(verRes.h)
                   IN  /\ ~pt.inf
                       /\ pt.x % Order = sigRes.r
                       /\ pt.x # ProjMul(Generator, sigRes.k).x
           /\ (/\ verRes.h = TwinDigest(sigRes.d, sigRes.h, sigRes.r)
               /\ sigRes.r # 0
               /\ sigRes.s # 0) => verRes.val

\* C6 witness: a signature for h1 was verified against another reduced
\* digest and accepted.
C6_Witness ==
    /\ Verified
    /\ sigRes.d \in Scalars1
    /\ sigRes.h \in Reduced
    /\ verRes.h \in Reduced
    /\ verRes.h # sigRes.h
    /\ verRes.val

\* C7: the nonce is a function of (private key, digest): a call with the
\* inputs of the call before it returns the nonce that call returned; and
\* every nonce returned lies in [1, order-1].
C7_Nonce ==
    Signed =>
        /\ prevNonce.set => sigRes.k = prevNonce.k
        /\ sigRes.k \in Scalars1

\* C7 witness: two calls in a row with the same key and digest have returned.
C7_Witness ==
    /\ Signed
    /\ sigRes.d \in Scalars1
    /\ prevNonce.set
    /\ prevNonce.d = sigRes.d
    /\ prevNonce.h = sigRes.h

\* C8 (as claimed): sign never panics: for every key in [1, order-1] and
\* every digest, digests >= order included, it returns Ok or a typed error,
\* and when the computed r or s is zero it returns the error, not a
\* signature.
C8_TypedError ==
    (Signed /\ sigRes.d \in Scalars1) =>
        /\ sigRes.kind \in {"ok", "err"}
        /\ (sigRes.kind = "ok" => (sigRes.r # 0 /\ sigRes.s # 0))

\* C9 (as claimed): from_bytes returns Ok exactly for the values in
\* [1, order-1] and Err(InvalidPrivateKey) for every other value, so the
\* scalar of a PrivateKey lies in [1, order-1].
C9_FromBytes ==
    key.op = "from_bytes" =>
        /\ key.kind = "ok" <=> key.bytes \in Scalars1
        /\ key.kind # "ok" => key.kind = "InvalidPrivateKey"
        /\ key.kind = "ok" => key.scalar \in Scalars1

(***************************************************************************)
(* Claims about verify on arbitrary inputs (SpecVerify).                   *)
(***************************************************************************)
\* C4: verify never raises.  For every public point, the identity included,
\* every digest, values >= order included, and every (r, s), verify returns
\* a boolean, and it returns false whenever r or s is zero or >= order.
C4_VerifyTotal ==
    /\ vcall.kind \in {"none", "call", "ret"}
    /\ (vcall.kind = "ret" /\ (vcall.r = 0 \/ vcall.r >= Order
                               \/ vcall.s = 0 \/ vcall.s >= Order))
          => ~vcall.val

\* C4 witness: verify has returned false for r = 0 on inputs whose
\* recomputed point is the identity, whose x-coordinate reads as 0.
C4_Witness ==
    /\ vcall.kind = "ret"
    /\ vcall.r = 0
    /\ vcall.h = 0
    /\ vcall.s \in Scalars1
    /\ vcall.q.inf
    /\ ~vcall.val

\* P = (h*w)*G + (r*w)*Q with w the inverse of s modulo the order.
VerifyPoint(Q, h, r, s) ==
    LET w == CHOOSE w \in Scalars1 : (s * w) % Order = 1
    IN  ProjAdd(ProjMul(Generator, (h * w) % Order),
                ProjMul(Q, (r * w) % Order))

\* C5: for r, s in [1, order-1] and a reduced digest h, verify returns true
\* exactly when P = (h*w)*G + (r*w)*Q is a finite point whose x-coordinate
\* reduced modulo the order equals r; for P at infinity it returns false.
C5_VerifyAccepts ==
    (vcall.kind = "ret" /\ vcall.r \in Scalars1 /\ vcall.s \in Scalars1
                        /\ vcall.h \in Reduced)
        => LET P == VerifyPoint(vcall.q, vcall.h, vcall.r, vcall.s)
           IN  vcall.val <=> (~P.inf /\ P.x % Order = vcall.r)

\* C5 witness: verify has returned true for a finite P whose x-coordinate
\* is not below the order.
C5_Witness ==
    /\ vcall.kind = "ret"
    /\ vcall.r \in Scalars1
    /\ vcall.s \in Scalars1
    /\ vcall.h \in Reduced
    /\ vcall.val
    /\ VerifyPoint(vcall.q, vcall.h, vcall.r, vcall.s).x >= Order

(***************************************************************************)
(* Claims about the arithmetic layer (SpecCurve).                          *)
(***************************************************************************)
\* C10 (as claimed): Point::finite(x, y, a, b) returns Ok(Finite) exactly
\* when x, y, a and b share one prime modulus p and y*y = x*x*x + a*x + b
\* holds modulo p; otherwise it returns an error, NotOnCurve when the
\* equation does not hold, and never a point.
C10_Finite ==
    fcall.kind = "ret" =>
        LET x == fcall.x
            y == fcall.y
            a == fcall.a
            b == fcall.b
            same == x.prime = y.prime /\ a.prime = x.prime
                                      /\ b.prime = x.prime
            holds == (y.num * y.num) % x.prime
                       = (x.num * x.num * x.num + a.num * x.num + b.num)
                            % x.prime
        IN  /\ fcall.res.kind = "ok" <=> (same /\ holds)
            /\ fcall.res.kind # "ok" => fcall.res.kind = "err"
            /\ (same /\ ~holds) => fcall.res.err = "NotOnCurve"

(***************************************************************************)
(* Claims about the group law of arithmetic/point.rs.                      *)
(***************************************************************************)
\* (x, -y) for a Finite point (x, y).
Negated(P) == [P EXCEPT !.y = FieldElementFrom(0 - P.y.num, P.y.prime).val]

\* C11 (as claimed): adding two points whose curve coefficients differ, each
\* Finite or Infinity, fails with PointError::DifferentCurves.
C11_DifferentCurves ==
    (pcall.kind = "add" /\ ~SameCurve(pcall.p, pcall.q))
        => pcall.res = PErr("DifferentCurves")

\* C12: group identity.  On one curve (a, b), P + Infinity and Infinity + P
\* return Ok(P) for every Finite P, Infinity + Infinity returns that
\* Infinity, and an Infinity operand selects an identity arm of add, ahead
\* of the arms that compute with coordinates.
C12_Identity ==
    (pcall.kind = "add" /\ SameCurve(pcall.p, pcall.q)) =>
        /\ (~pcall.p.inf /\ pcall.q.inf) => pcall.res = POk(pcall.p)
        /\ (pcall.p.inf /\ ~pcall.q.inf) => pcall.res = POk(pcall.q)
        /\ (pcall.p.inf /\ pcall.q.inf)
              => pcall.res = POk(infinity(pcall.p.a, pcall.p.b))
        /\ (pcall.p.inf \/ pcall.q.inf)
              => AddArm(pcall.p, pcall.q)
                    \in {"identity_left", "identity_right"}

C12_Witness ==
    /\ pcall.kind = "add"
    /\ SameCurve(pcall.p, pcall.q)
    /\ ~pcall.p.inf
    /\ pcall.q.inf
    /\ pcall.p.x.prime = MaxPrime
    /\ pcall.res = POk(pcall.p)

\* C13 (as claimed): group inverse.  For every Finite point P = (x, y) of a
\* curve over a prime field, P + (x, -y) returns Infinity on P's curve, the
\* case -y = y included.
C13_Inverse ==
    (pcall.kind = "add" /\ ~pcall.p.inf /\ pcall.q = Negated(pcall.p))
        => pcall.res = POk(infinity(pcall.p.a, pcall.p.b))

\* The test vector of test_scalar_mul: 17 * (47, 71) on y^2 = x^3 + 7 over
\* the field of 223 elements.
ScalarMulVector ==
    LET P == [inf |-> FALSE, x |-> FE(47, 223), y |-> FE(71, 223),
              a |-> FE(0, 223), b |-> FE(7, 223)]
        R == [inf |-> FALSE, x |-> FE(194, 223), y |-> FE(172, 223),
              a |-> FE(0, 223), b |-> FE(7, 223)]
    IN  LET res == PointMul(17, P)
        IN  res.kind = "ok" /\ PointEq(res.point, R)

\* C14 (as claimed): scalar multiplication returns a point for every scalar
\* k >= 0 and is additive in the scalar: 0 * P is the Infinity of P's curve,
\* 1 * P is P, and (m + n) * P equals m * P + n * P, for every point P of a
\* curve over a prime field; and 17 * (47, 71) = (194, 172) modulo 223.
C14_ScalarMul ==
    /\ ScalarMulVector
    /\ pcall.kind = "mul" =>
          /\ pcall.resM.kind = "ok"
          /\ pcall.resN.kind = "ok"
          /\ pcall.resMN.kind = "ok"
          /\ pcall.m = 0
                => pcall.resM = POk(infinity(pcall.p.a, pcall.p.b))
          /\ pcall.m = 1 => pcall.resM = POk(pcall.p)
          /\ LET sum == PointAdd(pcall.resM.point, pcall.resN.point)
             IN  sum.kind = "ok" /\ PointEq(pcall.resMN.point, sum.point)

\* C15: point equality.  Two points are equal exactly when their a and b
\* are equal and both are Infinity, or both are Finite with equal x and y.
C15_Equality ==
    pcall.kind = "eq" =>
        (pcall.eq <=>
            /\ SameCurve(pcall.p, pcall.q)
            /\ \/ pcall.p.inf /\ pcall.q.inf
               \/ /\ ~pcall.p.inf /\ ~pcall.q.inf
                  /\ FieldEq(pcall.p.x, pcall.q.x)
                  /\ FieldEq(pcall.p.y, pcall.q.y))

C15_Witness ==
    /\ pcall.kind = "eq"
    /\ pcall.p.inf
    /\ pcall.q.inf
    /\ ~SameCurve(pcall.p, pcall.q)
    /\ ~pcall.eq

(***************************************************************************)
(* Claims about arithmetic/field.rs.                                       *)
(***************************************************************************)
InRange(fe) == 0 <= fe.num /\ fe.num < fe.prime

\* C16: FieldElement::from(n, p) returns Err(InvalidPrime) exactly when
\* p <= 1; for p > 1 and every integer n it returns an element of modulus p
\* whose value lies in [0, p-1] and is congruent to n modulo p.
C16_From ==
    fop.op = "from" =>
        /\ fop.res.ok <=> fop.prime > 1
        /\ ~fop.res.ok => fop.res = FErr("InvalidPrime")
        /\ fop.res.ok =>
              /\ fop.res.val.prime = fop.prime
              /\ InRange(fop.res.val)
              /\ (fop.res.val.num - fop.k) % fop.prime = 0

C16_Witness ==
    /\ fop.op = "from"
    /\ fop.k < 0
    /\ fop.prime = MaxPrime
    /\ fop.res.ok
    /\ fop.res.val.num = fop.k + fop.prime

\* C17 (as claimed): field range invariant.  Every FieldElement returned
\* by from, add, sub, mul, the two multiplications by an integer, div and
\* pow has 0 <= value < modulus, for negative integers operands too.
C17_Range ==
    (fop.op # "none" /\ fop.res.ok) => InRange(fop.res.val)

\* C18 (as claimed): add, sub, mul and div of two elements whose moduli
\* differ return Err(DifferentFields); with one modulus p they return Ok
\* with (a+b) mod p, (a-b) mod p, (a*b) mod p and a*b^(p-2) mod p.
C18_Binary ==
    fop.op \in {"add", "sub", "mul", "div"} =>
        IF fop.a.prime # fop.b.prime
        THEN fop.res = FErr("DifferentFields")
        ELSE LET p == fop.a.prime
                 a == fop.a.num
                 b == fop.b.num
                 expected ==
                    IF fop.op = "add" THEN (a + b) % p
                    ELSE IF fop.op = "sub" THEN (a - b) % p
                    ELSE IF fop.op = "mul" THEN (a * b) % p
                    ELSE (a * ModPow(b, p - 2, p)) % p
             IN  fop.res = FOk(FE(expected, p))

\* C19 (as claimed): field inverse round trip.  For every prime p and
\* every element a # 0 of its field, a / a returns Ok(FieldElement(1, p)).
C19_DivSelf ==
    (fop.op = "div" /\ fop.a = fop.b /\ fop.a.num # 0)
        => fop.res = FOk(FE(1, fop.a.prime))

\* C20 (as claimed): exponent periodicity.  For every element a of a prime
\* field p and every integer e, a.pow(e) and a.pow(e + (p-1)) both return
\* a value, and the two values are equal.
C20_Periodic ==
    fop.op = "pow" =>
        LET again == PowResult(fop.a, fop.k + (fop.a.prime - 1))
        IN  /\ fop.res.ok
            /\ again.ok
            /\ FieldEq(fop.res.val, again.val)

(***************************************************************************)
(* Claims about the slope rules and the curve equation.                    *)
(***************************************************************************)
\* The inverse of d modulo the prime p, for d not a multiple of p.
TrueInv(d, p) == CHOOSE i \in 0 .. (p - 1) : (i * d) % p = 1

\* Finite(x3, y3) on the curve of P, with x3 = m^2 - x1 - x2 and
\* y3 = m (x1 - x3) - y1 computed in the integers modulo p.
SlopeResult(P, x2, m) ==
    LET p  == P.x.prime
        x3 == (m * m - P.x.num - x2) % p
        y3 == (m * (P.x.num - x3) - P.y.num) % p
    IN  POk([inf |-> FALSE, x |-> FE(x3, p), y |-> FE(y3, p),
             a |-> P.a, b |-> P.b])

Point223(x, y) ==
    [inf |-> FALSE, x |-> FE(x, 223), y |-> FE(y, 223),
     a |-> FE(0, 223), b |-> FE(7, 223)]

\* The test vectors of test_add1 and test_add2.
AddVectors ==
    /\ PointAdd(Point223(192, 105), Point223(17, 56))
          = POk(Point223(170, 142))
    /\ PointAdd(Point223(17, 56), Point223(17, 56)) = POk(Point223(13, 190))

\* C21 (as claimed): slope rules.  For Finite P = (x1, y1) and Q = (x2, y2)
\* of one curve over a prime field, Q not (x1, -y1), P + Q is the Finite
\* point (m^2 - x1 - x2, m (x1 - x3) - y1), with m = (3 x1^2 + a) / (2 y1)
\* when P = Q and m = (y2 - y1) / (x2 - x1) when x1 # x2; P + P is Infinity
\* when y1 = 0; and the two test vectors modulo 223 hold.
C21_Slope ==
    /\ AddVectors
    /\ (pcall.kind = "add" /\ ~pcall.p.inf /\ ~pcall.q.inf
                           /\ SameCurve(pcall.p, pcall.q)) =>
          LET P  == pcall.p
              Q  == pcall.q
              p  == P.x.prime
              x1 == P.x.num
              y1 == P.y.num
              x2 == Q.x.num
              y2 == Q.y.num
          IN  /\ (P = Q /\ y1 = 0)
                    => pcall.res = POk(infinity(P.a, P.b))
              /\ (P = Q /\ Q # Negated(P))
                    => pcall.res =
                          SlopeResult(P, x2,
                              ((3 * x1 * x1 + P.a.num) * TrueInv(2 * y1, p))
                                  % p)
              /\ (x1 # x2 /\ Q.x.prime = p)
                    => pcall.res =
                          SlopeResult(P, x2,
                              ((y2 - y1) * TrueInv(x2 - x1, p)) % p)

\* y^2 = x^3 + a x + b in the integers modulo the prime of x.
OnCurveEq(P) ==
    (P.y.num * P.y.num) % P.x.prime
        = (P.x.num * P.x.num * P.x.num + P.a.num * P.x.num + P.b.num)
             % P.x.prime

\* C22 (as claimed): curve membership under the group law.  From points
\* built by Point::finite or Point::infinity on one curve over a prime
\* field, every Finite point that a sequence of additions and scalar
\* multiplications returns satisfies y^2 = x^3 + a x + b for its own (a, b)
\* and passes Point::finite again.
C22_Membership ==
    (pcall.kind \in {"gadd", "gmul"} /\ pcall.res.kind = "ok"
                                     /\ ~pcall.res.point.inf) =>
        LET R == pcall.res.point
        IN  /\ OnCurveEq(R)
            /\ finite(R.x, R.y, R.a, R.b) = POk(R)

(***************************************************************************)
(* Claims about the candidate loop of generate_deterministic_nonce.        *)
(***************************************************************************)
\* C23 (as claimed): the candidate loop always terminates.  Every sign call
\* that enters the loop leaves it, with an accepted candidate or an
\* internal error after a bounded number of rejections; and a rejected
\* candidate is followed by K = HMAC_K(V || 0x00), V = HMAC_K(V).
C23_Terminates ==
    /\ [][NonceReject =>
            LET v1 == HmacSha256(nK, <<nV>>)
                k1 == HmacSha256(nK, <<v1, 0>>)
            IN  nK' = k1 /\ nV' = HmacSha256(k1, <<v1>>)]_vars
    /\ (pc = "nonce") ~> (pc # "nonce")

(***************************************************************************)
(* Claims about pow, the twin signature and division by zero.              *)
(***************************************************************************)
\* C24 (as claimed): pow is modular exponentiation.  For every prime p,
\* every element a of its field, 0 included, and every e >= 0, a.pow(e) is
\* the e-fold product of a modulo p.
C24_Pow ==
    (fop.op = "pow" /\ fop.k >= 0) =>
        fop.res = FOk(FE(ModPow(fop.a.num, fop.k, fop.a.prime), fop.a.prime))

\* C25: verify does not enforce low-s.  Whenever verify(Q, h, (r, s)) is
\* true for s in [1, order-1], verify(Q, h, (r, order - s)) is true too.
C25_Twin ==
    (vcall.kind = "ret" /\ vcall.val /\ vcall.s \in 1 .. (Order - 1)) =>
        verify(vcall.q, vcall.h, vcall.r, Order - vcall.s) = Ret(TRUE)

C25_Witness ==
    /\ vcall.kind = "ret"
    /\ vcall.val
    /\ vcall.s \in 1 .. (Order \div 2)
    /\ Order - vcall.s > Order \div 2
    /\ verify(vcall.q, vcall.h, vcall.r, Order - vcall.s) = Ret(TRUE)

\* C26: division by the zero element is not an error.  For every element a
\* and the zero element of the same field of a prime p > 2, a / 0 returns
\* Ok(FieldElement(0, p)).
C26_DivZero ==
    (fop.op = "div" /\ fop.a.prime = fop.b.prime /\ fop.b.num = 0
                   /\ fop.a.prime > 2)
        => fop.res = FOk(FE(0, fop.a.prime))

C26_Witness ==
    /\ fop.op = "div"
    /\ fop.a.prime = MaxPrime
    /\ fop.b = FE(0, MaxPrime)
    /\ fop.a.num # 0
    /\ fop.res = FOk(FE(0, MaxPrime))

====
